---- MODULE Spec2Model ----
(***************************************************************************)
(* Rate limiter and fetch paths of the Torn company listings dashboard     *)
(* (src/api_solov2chat.py), with its snapshot saving, its price inference  *)
(* and the fetch loop of its page, and the limiter and fetch of the        *)
(* variant src/chat.py.  Time is counted in whole seconds.  The token      *)
(* budget is a float in the source; here it is kept as a number of         *)
(* 1/TOKEN_REFILL_DEN tokens, which is exact for whole-second clocks with  *)
(* TOKEN_REFILL_RATE = 1 / 2.0.                                            *)
(***************************************************************************)
EXTENDS Integers, Sequences, FiniteSets, Bags, TLC

\* ---- configuration (src/api_solov2chat.py lines 27-33) ----
PRICE_START == 135
PRICE_END == 199
CALL_INTERVAL == 2
TOKEN_BUCKET_SIZE == 5
TOKEN_REFILL_DEN == 2
COOLDOWN_SECONDS == 300
MAX_CONSECUTIVE_ERRORS == 3

\* ---- bounds of the exploration ----
NumThreads == 2
MaxFine == 4
MaxBack == 8
MaxSetBacks == 1
StartTime == 10
MaxElapsed == 12
MaxCompanies == 3
NumIds == 2
NumDates == 2
MaxSaves == 3
MaxIncome == 2520
MaxPrices == 4
NumPrices == 3
MaxClicks == 2

Threads == 1..NumThreads

\* One token, and the bucket capacity, in units of 1/TOKEN_REFILL_DEN token.
OneToken == TOKEN_REFILL_DEN
Capacity == TOKEN_BUCKET_SIZE * TOKEN_REFILL_DEN

Ops == {"individual", "bulk"}

\* What the upstream service answers to one HTTP request.
Outcomes ==
    { "network_error",   \* requests.RequestException
      "http_429",        \* status_code == 429
      "http_error",      \* any other status_code != 200
      "parse_error",     \* response.json() raises, or the document is no object
      "api_error_6",     \* {"error": {"code": 6}}
      "api_error",       \* {"error": {"code": c}}, c # 6
      "no_data",         \* no "error", and an empty or missing "company"
      "bad_fields",      \* a non-empty "company" whose fields make the parsing raise
      "ok" }             \* a well-formed company document

VARIABLES
    now,                 \* time.time()
    tokens,              \* _tokens, in 1/TOKEN_REFILL_DEN tokens
    last_token_refill,   \* _last_token_refill
    last_call_time,      \* _last_call_time
    api_disabled_until,  \* _api_disabled_until
    consecutive_errors,  \* _consecutive_errors
    rate_lock,           \* _rate_lock: 0 when free, else the holder
    pc,                  \* each thread's position
    op,                  \* the fetch each thread is running
    resp,                \* the upstream answer the thread is handling
    loaded,              \* the value of _consecutive_errors a thread has loaded for +=
    sleepleft,           \* seconds left of a thread's time.sleep
    ret,                 \* what wait_for_rate_limit returned to the thread
    result,              \* what the fetch returned: [record, msg]
    slept,               \* whether the thread's wait_for_rate_limit call slept
    reqs,                \* HTTP requests issued by the thread's current fetch
    waits,               \* wait_for_rate_limit calls made by the thread's current fetch
    before,              \* the error count and deadline when the thread's fetch began
    streak,              \* failures observed in a row, with no other outcome between
    setbacks,            \* times the wall clock was set back so far
    refill_in,           \* what the last direct call of _refill_tokens found
    table,               \* the rows of company_snapshots, a bag
    save_pc,             \* the position of the save_snapshots call
    companies,           \* save_snapshots: the argument `companies`
    snapshot_date,       \* save_snapshots: the argument `snapshot_date`
    override,            \* ALLOW_OVERRIDE_SAVE as the call finds it
    unique_companies,    \* save_snapshots: unique_companies
    existing,            \* save_snapshots: existing
    to_save,             \* save_snapshots: to_save
    batch_start,         \* save_snapshots: i, the start of the next insert batch
    inserted,            \* rows the call has inserted into the table so far
    saved,               \* what save_snapshots returned
    saves,               \* save_snapshots calls made so far
    again,               \* the call repeats the arguments of the call before it
    query_failed,        \* the call's query for the stored ids raised
    rows_before,         \* the stored rows of the call's date when the call began
    daily_income,        \* calculate_possible_prices: the argument
    possible_prices,     \* calculate_possible_prices: the list returned
    priced,              \* whether calculate_possible_prices has returned
    price_guess,         \* calculate_price_guess: the value returned
    guessed,             \* whether calculate_price_guess has returned
    fetch_triggered,     \* st.session_state.fetch_triggered
    to_fetch_target,     \* st.session_state.to_fetch_target
    loop_i,              \* the fetch loop: ids of COMPANY_IDS[:target] gone through
    existing_ids,        \* the fetch loop: existing_ids
    companies_data,      \* st.session_state.companies_data, the ids of its records
    deleted_ids,         \* st.session_state.deleted_ids
    fetched,             \* fetch_company_individual calls of the loop, per id
    clicks               \* FETCH clicks so far

vars == << now, tokens, last_token_refill, last_call_time, api_disabled_until,
           consecutive_errors, rate_lock, pc, op, resp, loaded, sleepleft, ret,
           result, slept, reqs, waits, before, streak, setbacks, refill_in, table,
           save_pc, companies, snapshot_date, override, unique_companies, existing,
           to_save, batch_start, inserted, saved, saves, again, query_failed, rows_before,
           daily_income,
           possible_prices, priced, price_guess, guessed, fetch_triggered,
           to_fetch_target, loop_i, existing_ids, companies_data, deleted_ids,
           fetched, clicks >>

limiter == << tokens, last_token_refill, last_call_time >>
shared  == << api_disabled_until, consecutive_errors >>
locals  == << op, resp, loaded, sleepleft >>
history == << slept, reqs, waits, before, streak, setbacks >>

\* The state of the functions that are exercised on their own, apart from the fetchers.
saving == << table, save_pc, companies, snapshot_date, override, unique_companies,
             existing, to_save, batch_start, inserted, saved, saves, again,
             query_failed, rows_before >>
pricing == << daily_income, possible_prices, priced, price_guess, guessed >>
session == << fetch_triggered, to_fetch_target, loop_i, existing_ids, companies_data,
              deleted_ids, fetched, clicks >>
aside == << refill_in, saving, pricing, session >>

NoRet == [ok |-> FALSE, msg |-> "none", remaining |-> 0]
NoResult == [record |-> FALSE, msg |-> "none"]
NoBefore == [errors |-> 0, disabled |-> 0]
NoRefill == [called |-> FALSE, tokens |-> 0, stamp |-> 0, at |-> 0]
NoSaved == [saved_count |-> 0, skipped_count |-> 0, error |-> "unset"]
NoIncome == [given |-> FALSE, value |-> 0]
NoGuess == [given |-> FALSE, value |-> 0]
Min(a, b) == IF a < b THEN a ELSE b
Max(a, b) == IF a > b THEN a ELSE b

\* ---- the session state of the page (lines 533-547) ----
InitSession ==
    /\ fetch_triggered = FALSE
    /\ to_fetch_target = 10
    /\ loop_i = 0
    /\ existing_ids = {}
    /\ companies_data = << >>
    /\ deleted_ids = << >>
    /\ fetched = [c \in 1..NumIds |-> 0]
    /\ clicks = 0

\* ---- module initialisation (lines 51-56) ----
InitSaving ==
    /\ table = EmptyBag
    /\ save_pc = "idle"
    /\ companies = << >>
    /\ snapshot_date = 1
    /\ override = FALSE
    /\ unique_companies = << >>
    /\ existing = {}
    /\ to_save = << >>
    /\ batch_start = 0
    /\ inserted = 0
    /\ saved = NoSaved
    /\ saves = 0
    /\ again = FALSE
    /\ query_failed = FALSE
    /\ rows_before = EmptyBag

InitAside ==
    /\ refill_in = NoRefill
    /\ InitSaving
    /\ daily_income = NoIncome
    /\ possible_prices = << >>
    /\ priced = FALSE
    /\ price_guess = NoGuess
    /\ guessed = FALSE
    /\ InitSession

InitCallers ==
    /\ last_call_time = 0
    /\ api_disabled_until = 0
    /\ consecutive_errors = 0
    /\ rate_lock = 0
    /\ op = [t \in Threads |-> "individual"]
    /\ resp = [t \in Threads |-> "ok"]
    /\ loaded = [t \in Threads |-> 0]
    /\ sleepleft = [t \in Threads |-> 0]
    /\ ret = [t \in Threads |-> NoRet]
    /\ result = [t \in Threads |-> NoResult]
    /\ slept = [t \in Threads |-> FALSE]
    /\ reqs = [t \in Threads |-> 0]
    /\ waits = [t \in Threads |-> 0]
    /\ before = [t \in Threads |-> NoBefore]
    /\ streak = 0
    /\ setbacks = 0

InitShared ==
    /\ now = StartTime
    /\ tokens = Capacity
    /\ last_token_refill = StartTime
    /\ InitCallers
    /\ InitAside

\* Every thread may call the fetchers.
Init == InitShared /\ pc = [t \in Threads |-> "idle"]

\* Sequential use: one caller.
InitSeq == InitShared /\ pc = [t \in Threads |-> IF t = 1 THEN "idle" ELSE "off"]

\* ---- _refill_tokens (lines 58-65) ----
\* Mutant: the refill without the `if new_tokens > 0` guard.
RefillUnguarded(tk, elapsed) == Min(Capacity, tk + elapsed)

\* Mutant: the refill without the cap at the bucket size.
RefillUncapped(tk, elapsed) ==
    IF elapsed > 0 THEN tk + elapsed ELSE tk

\* Mutant: the refill forgets what the bucket held.
RefillFromEmpty(tk, elapsed) ==
    IF elapsed > 0 THEN Min(Capacity, elapsed) ELSE tk

\* new_tokens = elapsed * TOKEN_REFILL_RATE, in 1/TOKEN_REFILL_DEN tokens: elapsed.
RefillTokens(tk, elapsed) ==
    IF elapsed > 0 THEN Min(Capacity, tk + elapsed) ELSE tk

RefillStamp(stamp, t, elapsed) ==
    IF elapsed > 0 THEN t ELSE stamp

\* ---- the callers: fetch_company_individual (line 318), fetch_company_ids_bulk (165) ----
BeginFetch(t, o) ==
    /\ pc[t] = "idle"
    /\ op' = [op EXCEPT ![t] = o]
    /\ pc' = [pc EXCEPT ![t] = "wait"]
    /\ waits' = [waits EXCEPT ![t] = waits[t] + 1]
    /\ before' = [before EXCEPT ![t] = [errors |-> consecutive_errors,
                                        disabled |-> api_disabled_until]]
    /\ UNCHANGED << aside, now, limiter, shared, rate_lock, resp, loaded, sleepleft, ret,
                    result, slept, reqs, streak, setbacks >>

\* ---- wait_for_rate_limit (lines 67-87) ----
\* Mutant: the deadline itself still counts as cooldown.
InCooldownAtDeadline(t, deadline) == t <= deadline

\* lines 71-72: take the lock, read the clock, test the cooldown deadline.
InCooldown(t, deadline) == t < deadline

EnterWait(t) ==
    /\ pc[t] = "wait"
    /\ rate_lock = 0
    /\ rate_lock' = t
    /\ pc' = [pc EXCEPT ![t] =
                IF InCooldown(now, api_disabled_until) THEN "cooling" ELSE "refill"]
    /\ UNCHANGED << aside, now, limiter, shared, locals, ret, result, history >>

\* Mutant: every denial carries the reason of the cooldown denial.
DeniedSameReason(t, message, remaining) ==
    /\ ret' = [ret EXCEPT ![t] = [ok |-> FALSE, msg |-> "API disabled",
                                  remaining |-> remaining]]
    /\ result' = [result EXCEPT ![t] = [record |-> FALSE, msg |-> "API disabled"]]
    /\ rate_lock' = 0
    /\ pc' = [pc EXCEPT ![t] = "done"]
    /\ streak' = 0

\* A denied permit makes the fetch return (None, message) at once (lines 166-167,
\* 319-320); no outcome is reported.
Denied(t, message, remaining) ==
    /\ ret' = [ret EXCEPT ![t] = [ok |-> FALSE, msg |-> message, remaining |-> remaining]]
    /\ result' = [result EXCEPT ![t] = [record |-> FALSE, msg |-> message]]
    /\ rate_lock' = 0
    /\ pc' = [pc EXCEPT ![t] = "done"]
    /\ streak' = 0

\* Mutant: a denied call starts the cooldown anew.
DenyCooldownRestarts(t) ==
    /\ pc[t] = "cooling"
    /\ Denied(t, "API disabled", api_disabled_until - now)
    /\ api_disabled_until' = now + COOLDOWN_SECONDS
    /\ UNCHANGED << aside, now, limiter, consecutive_errors, locals, slept, reqs, waits,
                    setbacks, before >>

\* lines 73-74: read the clock again for the remaining seconds, return the denial.
DenyCooldown(t) ==
    /\ pc[t] = "cooling"
    /\ Denied(t, "API disabled", api_disabled_until - now)
    /\ UNCHANGED << aside, now, limiter, shared, locals, slept, reqs, waits, setbacks,
                    before >>

\* lines 76-79: refill, then deny when less than one token is left.
RefillAndTest(t) ==
    /\ pc[t] = "refill"
    /\ LET elapsed == now - last_token_refill
           tk == RefillTokens(tokens, elapsed)
       IN  /\ tokens' = tk
           /\ last_token_refill' = RefillStamp(last_token_refill, now, elapsed)
           /\ IF tk < OneToken
                THEN /\ Denied(t, "No tokens available", 0)
                ELSE /\ pc' = [pc EXCEPT ![t] = "pace"]
                     /\ UNCHANGED << ret, result, rate_lock, streak >>
    /\ UNCHANGED << aside, now, last_call_time, shared, locals, slept, reqs, waits,
                    setbacks, before >>

\* Mutant: sleeps for the time already passed instead of the time still missing.
PaceSleepElapsed(since) == IF since < CALL_INTERVAL THEN Max(0, since) ELSE 0

\* Mutant: no pacing sleep at all.
PaceSleepNever(since) == 0

\* lines 81-83: the pacing sleep, taken with the lock held.
PaceSleep(since) == IF since < CALL_INTERVAL THEN CALL_INTERVAL - since ELSE 0

Pace(t) ==
    /\ pc[t] = "pace"
    /\ LET d == PaceSleep(now - last_call_time)
       IN  /\ sleepleft' = [sleepleft EXCEPT ![t] = d]
           /\ slept' = [slept EXCEPT ![t] = d > 0]
           /\ pc' = [pc EXCEPT ![t] = "sleep"]
    /\ UNCHANGED << aside, now, limiter, shared, rate_lock, op, resp, loaded, ret, result,
                    reqs, waits, streak, setbacks, before >>

\* lines 85-87, once time.sleep has returned (it returns when at least the requested
\* time has passed): consume a token, stamp the call, release the lock, return
\* (True, "OK").
Grant(t) ==
    /\ pc[t] = "sleep"
    /\ sleepleft[t] = 0
    /\ tokens' = tokens - OneToken
    /\ last_call_time' = now
    /\ rate_lock' = 0
    /\ ret' = [ret EXCEPT ![t] = [ok |-> TRUE, msg |-> "OK", remaining |-> 0]]
    /\ pc' = [pc EXCEPT ![t] = "request"]
    /\ UNCHANGED << aside, now, last_token_refill, shared, locals, result, history >>

\* ---- the HTTP request and the handling of its answer ----
\* requests.get (lines 170, 325): one request, answered by any upstream behaviour.
Request(t, o) ==
    /\ pc[t] = "request"
    /\ o \in Outcomes
    /\ resp' = [resp EXCEPT ![t] = o]
    /\ reqs' = [reqs EXCEPT ![t] = reqs[t] + 1]
    /\ pc' = [pc EXCEPT ![t] = "handle"]
    /\ UNCHANGED << aside, now, limiter, shared, rate_lock, op, loaded, sleepleft, ret,
                    result, slept, waits, streak, setbacks, before >>

\* The answers after which the code runs `_consecutive_errors += 1` first thing:
\* individual lines 328, 335, 344, 385, 388; bulk lines 204, 207.
\* Mutant: error code 6 is counted like every other error code.
CountsEveryApiError(o, r) ==
    IF o = "individual"
      THEN r \in {"http_429", "http_error", "api_error", "api_error_6",
                  "network_error", "parse_error"}
      ELSE r \in {"network_error", "parse_error", "bad_fields"}

CountsError(o, r) ==
    IF o = "individual"
      THEN r \in {"http_429", "http_error", "api_error", "network_error", "parse_error"}
      ELSE r \in {"network_error", "parse_error", "bad_fields"}

\* The answers after which the code returns without touching the limiter state:
\* individual lines 343, 349; bulk lines 178, 183, 187.
ReturnsPlain(o, r) ==
    IF o = "individual"
      THEN r \in {"api_error_6", "no_data"}
      ELSE r \in {"http_error", "api_error_6", "api_error", "no_data"}

\* The answers after which the code runs `_consecutive_errors = 0`:
\* individual line 351 (before the record is parsed), bulk line 195 (after the loop).
ResetsErrors(o, r) ==
    IF o = "individual" THEN r \in {"ok", "bad_fields"} ELSE r = "ok"

\* The message of the returned tuple.
Message(o, r) ==
    CASE r = "network_error" -> "Network error"
      [] r \in {"parse_error", "bad_fields"} -> "Error"
      [] r = "http_error" -> "HTTP error"
      [] r = "http_429" -> IF o = "bulk" THEN "Rate limit exceeded (429)" ELSE "Rate limit (429)"
      [] r = "api_error" -> "API Error"
      [] r = "api_error_6" -> IF o = "bulk" THEN "API Error" ELSE "Company not found"
      [] r = "no_data" -> IF o = "bulk" THEN "No company data" ELSE "No data"
      [] OTHER -> "OK"

\* Outcomes that the limiter's contract counts as failures.
IsFailure(r) ==
    r \in {"network_error", "parse_error", "bad_fields", "http_error", "http_429",
           "api_error"}

\* Mutant: a failed request is issued once more before the fetch gives up.
ReturnOrRetry(t, record, message) ==
    IF IsFailure(resp[t]) /\ reqs[t] < 2
      THEN /\ pc' = [pc EXCEPT ![t] = "request"]
           /\ UNCHANGED << result, streak >>
      ELSE /\ result' = [result EXCEPT ![t] = [record |-> record, msg |-> message]]
           /\ pc' = [pc EXCEPT ![t] = "done"]
           /\ streak' = IF IsFailure(resp[t]) THEN streak + 1 ELSE 0

\* The fetch returns (record or None, message[, employees or None]): `record` tells
\* whether the first component is a record.
Return(t, record, message) ==
    /\ result' = [result EXCEPT ![t] = [record |-> record, msg |-> message]]
    /\ pc' = [pc EXCEPT ![t] = "done"]
    /\ streak' = IF IsFailure(resp[t]) THEN streak + 1 ELSE 0

ReturnPlain(t) ==
    /\ pc[t] = "handle"
    /\ ReturnsPlain(op[t], resp[t])
    /\ Return(t, FALSE, Message(op[t], resp[t]))
    /\ UNCHANGED << aside, now, limiter, shared, rate_lock, locals, ret, slept, reqs,
                    waits, setbacks, before >>

\* The answers on which a statement of the try block raises: requests.get (a
\* RequestException), response.json() or a method of a document that is no object,
\* the parsing of the company's fields.
Raises(r) == r \in {"network_error", "parse_error", "bad_fields"}

\* Mutant: only `except requests.RequestException` is there.
CatchesRequestException(r) == r = "network_error"

\* The handlers of the try block (lines 384-389, 203-208): `except
\* requests.RequestException`, then `except Exception`, which catches the rest.
Catches(r) == r = "network_error" \/ Raises(r)

\* `_consecutive_errors += 1` is a load, an add and a store: LoadErrors is the load.
\* After an exception it is the first statement of the handler that caught it; an
\* exception that no handler catches leaves the fetch.
LoadErrors(t) ==
    /\ \/ pc[t] = "handle" /\ CountsError(op[t], resp[t])
       \/ pc[t] = "incr"
    /\ IF Raises(resp[t]) /\ ~Catches(resp[t])
         THEN /\ pc' = [pc EXCEPT ![t] = "raised"]
              /\ UNCHANGED loaded
         ELSE /\ loaded' = [loaded EXCEPT ![t] = consecutive_errors]
              /\ pc' = [pc EXCEPT ![t] = "store"]
    /\ UNCHANGED << aside, now, limiter, shared, rate_lock, op, resp, sleepleft, ret, result,
                    history >>

\* The store of `+=`; every path but the individual 429 then returns.
StoreErrors(t) ==
    /\ pc[t] = "store"
    /\ consecutive_errors' = loaded[t] + 1
    /\ IF op[t] = "individual" /\ resp[t] = "http_429"
         THEN /\ pc' = [pc EXCEPT ![t] = "threshold"]
              /\ UNCHANGED << result, streak >>
         ELSE Return(t, FALSE, Message(op[t], resp[t]))
    /\ UNCHANGED << aside, now, limiter, api_disabled_until, rate_lock, locals, ret, slept,
                    reqs, waits, setbacks, before >>

\* individual lines 329-332: the cooldown starts when the count has reached the limit.
ReachedLimit(n) == n >= MAX_CONSECUTIVE_ERRORS

Threshold(t) ==
    /\ pc[t] = "threshold"
    /\ IF ReachedLimit(consecutive_errors)
         THEN /\ api_disabled_until' = now + COOLDOWN_SECONDS
              /\ Return(t, FALSE, "Rate limit exceeded. API disabled")
         ELSE /\ UNCHANGED api_disabled_until
              /\ Return(t, FALSE, Message(op[t], resp[t]))
    /\ UNCHANGED << aside, now, limiter, consecutive_errors, rate_lock, locals, ret, slept,
                    reqs, waits, setbacks, before >>

\* bulk lines 172-173: a 429 starts the cooldown, then counts the error (line 174).
BulkCooldown(t) ==
    /\ pc[t] = "handle"
    /\ op[t] = "bulk"
    /\ resp[t] = "http_429"
    /\ api_disabled_until' = now + COOLDOWN_SECONDS
    /\ pc' = [pc EXCEPT ![t] = "incr"]
    /\ UNCHANGED << aside, now, limiter, consecutive_errors, rate_lock, locals, ret, result,
                    history >>

\* individual line 351, bulk line 195: `_consecutive_errors = 0`.  In the individual
\* fetch the record is parsed after it (lines 354-374), and a field that makes the
\* parsing raise lands in `except Exception` (lines 387-389).
\* The cache upsert of the individual fetch has a try of its own (lines 377-380),
\* whose handler passes: the record is returned whether the upsert worked or not.
ResetErrors(t) ==
    /\ pc[t] = "handle"
    /\ ResetsErrors(op[t], resp[t])
    /\ consecutive_errors' = 0
    /\ IF resp[t] = "bad_fields"
         THEN /\ pc' = [pc EXCEPT ![t] = "incr"]
              /\ UNCHANGED << result, streak >>
         ELSE \E upserted \in BOOLEAN :
                 IF upserted \/ op[t] = "bulk"
                   THEN Return(t, TRUE, "OK")
                   ELSE Return(t, TRUE, "OK")
    /\ UNCHANGED << aside, now, limiter, api_disabled_until, rate_lock, locals, ret, slept,
                    reqs, waits, setbacks, before >>

\* The caller takes the returned tuple (call sites, lines 1259-1304); the thread is
\* free for its next fetch.
Finish(t) ==
    /\ pc[t] = "done"
    /\ pc' = [pc EXCEPT ![t] = "idle"]
    /\ op' = [op EXCEPT ![t] = "individual"]
    /\ resp' = [resp EXCEPT ![t] = "ok"]
    /\ loaded' = [loaded EXCEPT ![t] = 0]
    /\ ret' = [ret EXCEPT ![t] = NoRet]
    /\ result' = [result EXCEPT ![t] = NoResult]
    /\ slept' = [slept EXCEPT ![t] = FALSE]
    /\ reqs' = [reqs EXCEPT ![t] = 0]
    /\ waits' = [waits EXCEPT ![t] = 0]
    /\ before' = [before EXCEPT ![t] = NoBefore]
    /\ UNCHANGED << aside, now, limiter, shared, rate_lock, sleepleft, streak, setbacks >>

\* ---- the clock ----
\* The clock is explored second by second up to MaxFine seconds after the start
\* and after a leap of a cooldown's length.
Window(t) ==
    IF t < StartTime + COOLDOWN_SECONDS THEN StartTime ELSE StartTime + COOLDOWN_SECONDS

Tick ==
    /\ now < Window(now) + MaxFine
    /\ now' = now + 1
    /\ sleepleft' = [t \in Threads |-> Max(0, sleepleft[t] - 1)]
    /\ UNCHANGED << aside, limiter, shared, rate_lock, pc, op, resp, loaded, ret, result,
                    history >>

Jump ==
    /\ now < StartTime + COOLDOWN_SECONDS
    /\ now' = now + COOLDOWN_SECONDS
    /\ sleepleft' = [t \in Threads |-> Max(0, sleepleft[t] - COOLDOWN_SECONDS)]
    /\ UNCHANGED << aside, limiter, shared, rate_lock, pc, op, resp, loaded, ret, result,
                    history >>

\* time.time() is the wall clock: the system may set it back.  A sleep is not
\* shortened by that.
ClockBack(d) ==
    /\ d \in 1..MaxBack
    /\ now - d >= StartTime - MaxBack
    /\ setbacks < MaxSetBacks
    /\ setbacks' = setbacks + 1
    /\ now' = now - d
    /\ UNCHANGED << aside, limiter, shared, rate_lock, pc, locals, ret, result, slept, reqs,
                    waits, streak, before >>

Step(t) ==
    \/ \E o \in Ops : BeginFetch(t, o)
    \/ EnterWait(t)
    \/ DenyCooldown(t)
    \/ RefillAndTest(t)
    \/ Pace(t)
    \/ Grant(t)
    \/ \E o \in Outcomes : Request(t, o)
    \/ ReturnPlain(t)
    \/ LoadErrors(t)
    \/ StoreErrors(t)
    \/ Threshold(t)
    \/ BulkCooldown(t)
    \/ ResetErrors(t)
    \/ Finish(t)

\* One caller; the clock never runs backwards and may leap over a cooldown.
Next == (\E t \in Threads : Step(t)) \/ Tick \/ Jump

\* Concurrent callers, second by second.
NextThreads == (\E t \in Threads : Step(t)) \/ Tick

\* One caller, a wall clock that may be set back.
NextWall == (\E t \in Threads : Step(t)) \/ Tick \/ (\E d \in 1..MaxBack : ClockBack(d))

Spec == InitSeq /\ [][Next]_vars

SpecThreads == Init /\ [][NextThreads]_vars

SpecWall == InitSeq /\ [][NextWall]_vars

\* ---- the variant of src/chat.py (lines 84-118, 195-246) ----
\* chat.py lines 103-105: take the lock, test the cooldown deadline, and return
\* (False, "API cooling down") when the clock is before it.
ChatEnterWait(t) ==
    /\ pc[t] = "wait"
    /\ rate_lock = 0
    /\ IF InCooldown(now, api_disabled_until)
         THEN Denied(t, "API cooling down", 0)
         ELSE /\ rate_lock' = t
              /\ pc' = [pc EXCEPT ![t] = "refill"]
              /\ UNCHANGED << ret, result, streak >>
    /\ UNCHANGED << aside, now, limiter, shared, locals, slept, reqs, waits, setbacks,
                    before >>

\* chat.py lines 107-110: refill, then return (False, "No tokens") when less than
\* one token is left.
ChatRefillAndTest(t) ==
    /\ pc[t] = "refill"
    /\ LET elapsed == now - last_token_refill
           tk == RefillTokens(tokens, elapsed)
       IN  /\ tokens' = tk
           /\ last_token_refill' = RefillStamp(last_token_refill, now, elapsed)
           /\ IF tk < OneToken
                THEN /\ Denied(t, "No tokens", 0)
                ELSE /\ pc' = [pc EXCEPT ![t] = "pace"]
                     /\ UNCHANGED << ret, result, rate_lock, streak >>
    /\ UNCHANGED << aside, now, last_call_time, shared, locals, slept, reqs, waits,
                    setbacks, before >>

\* The message chat.py returns with an answer: "HTTP <status>" for a status other
\* than 200 (line 210), "No data" for a document without a company, among them
\* the error payloads (lines 212-214), the text of the exception (line 246).
ChatMessage(r) ==
    CASE r \in {"http_429", "http_error"} -> "HTTP error"
      [] r \in {"api_error", "api_error_6", "no_data"} -> "No data"
      [] r \in {"network_error", "parse_error", "bad_fields"} -> "Error"
      [] OTHER -> "OK"

\* Mutant: a 429 is handled as in src/api_solov2chat.py, lines 327-332.
ChatReturnCounting(t) ==
    /\ pc[t] = "handle"
    /\ Return(t, resp[t] = "ok", ChatMessage(resp[t]))
    /\ consecutive_errors' =
          IF resp[t] = "http_429" THEN consecutive_errors + 1 ELSE consecutive_errors
    /\ api_disabled_until' =
          IF resp[t] = "http_429" /\ ReachedLimit(consecutive_errors + 1)
            THEN now + COOLDOWN_SECONDS
            ELSE api_disabled_until
    /\ UNCHANGED << aside, now, limiter, rate_lock, locals, ret, slept, reqs, waits,
                    setbacks, before >>

\* chat.py lines 209-246: every answer makes the fetch return; neither
\* _consecutive_errors nor _api_disabled_until is written.
ChatReturn(t) ==
    /\ pc[t] = "handle"
    /\ Return(t, resp[t] = "ok", ChatMessage(resp[t]))
    /\ UNCHANGED << aside, now, limiter, shared, rate_lock, locals, ret, slept, reqs,
                    waits, setbacks, before >>

ChatStep(t) ==
    \/ BeginFetch(t, "individual")
    \/ ChatEnterWait(t)
    \/ ChatRefillAndTest(t)
    \/ Pace(t)
    \/ Grant(t)
    \/ \E o \in Outcomes : Request(t, o)
    \/ ChatReturn(t)
    \/ Finish(t)

\* One caller of chat.py, a wall clock that may be set back.
NextChat ==
    (\E t \in Threads : ChatStep(t)) \/ Tick \/ (\E d \in 1..MaxBack : ClockBack(d))

SpecChat == InitSeq /\ [][NextChat]_vars

\* ---- _refill_tokens on its own (lines 58-65) ----
\* Every level of the bucket, the refill stamp at the start time.
InitRefill ==
    /\ now = StartTime
    /\ tokens \in 0..Capacity
    /\ last_token_refill = StartTime
    /\ InitCallers
    /\ InitAside
    /\ pc = [t \in Threads |-> "off"]

\* The limiter state that _refill_tokens does not touch.
callers == << last_call_time, shared, rate_lock, pc, locals, ret, result, history >>

\* Time passes without a step of the program.
Elapse(d) ==
    /\ d \in 1..MaxElapsed
    /\ now + d <= StartTime + MaxElapsed
    /\ now' = now + d
    /\ UNCHANGED << tokens, last_token_refill, callers, aside >>

\* One call of _refill_tokens().
Refill ==
    /\ LET elapsed == now - last_token_refill
       IN  /\ tokens' = RefillTokens(tokens, elapsed)
           /\ last_token_refill' = RefillStamp(last_token_refill, now, elapsed)
    /\ refill_in' = [called |-> TRUE, tokens |-> tokens, stamp |-> last_token_refill,
                     at |-> now]
    /\ UNCHANGED << now, callers, saving, pricing, session >>

NextRefill == Refill \/ (\E d \in 1..MaxElapsed : Elapse(d))

SpecRefill == InitRefill /\ [][NextRefill]_vars

\* ---- calculate_possible_prices (lines 104-107) ----
\* The arguments: None, and every integer from -MaxIncome to MaxIncome.
Incomes == {NoIncome} \cup { [given |-> TRUE, value |-> v] : v \in (0 - MaxIncome)..MaxIncome }

\* range(a, b): a, a + 1, ..., b - 1.
Range(a, b) == [k \in 1..(b - a) |-> a + k - 1]

\* Mutant: the range stops one short.
PriceRangeShort == Range(PRICE_START, PRICE_END)

\* line 107: range(PRICE_START, PRICE_END + 1).
PriceRange == Range(PRICE_START, PRICE_END + 1)

\* lines 105-107; `not daily_income` is true of None and of 0.
CalculatePossiblePrices(di) ==
    IF (~di.given \/ di.value = 0) \/ di.value <= 0
      THEN << >>
      ELSE SelectSeq(PriceRange, LAMBDA p : di.value % p = 0)

InitPrice ==
    /\ now = StartTime
    /\ tokens = Capacity
    /\ last_token_refill = StartTime
    /\ InitCallers
    /\ pc = [t \in Threads |-> "off"]
    /\ refill_in = NoRefill
    /\ InitSaving
    /\ InitSession
    /\ daily_income \in Incomes
    /\ possible_prices = << >>
    /\ priced = FALSE
    /\ price_guess = NoGuess
    /\ guessed = FALSE

\* One call of calculate_possible_prices(daily_income).
CalculatePrices ==
    /\ ~priced
    /\ possible_prices' = CalculatePossiblePrices(daily_income)
    /\ priced' = TRUE
    /\ UNCHANGED << daily_income, price_guess, guessed, now, tokens, last_token_refill,
                    callers, refill_in, saving, session >>

NextPrice == CalculatePrices

SpecPrice == InitPrice /\ [][NextPrice]_vars

\* ---- calculate_price_guess (lines 109-113) ----
\* Mutant: the lower of the two middle elements of a list of even length.
CalculatePriceGuessLower(ps) ==
    IF Len(ps) > 0
      THEN [given |-> TRUE, value |-> ps[(Len(ps) + 1) \div 2]]
      ELSE NoGuess

\* lines 110-113: possible_prices[len(possible_prices) // 2], a list being indexed
\* from 0 in the source and from 1 here; None for the empty list.
CalculatePriceGuess(ps) ==
    IF ps # << >> /\ Len(ps) > 0
      THEN [given |-> TRUE, value |-> ps[Len(ps) \div 2 + 1]]
      ELSE NoGuess

\* The arguments: every list of at most MaxPrices of the first NumPrices prices,
\* in any order and with repetitions.
PriceLists ==
    UNION { [1..n -> PRICE_START..(PRICE_START + NumPrices - 1)] : n \in 0..MaxPrices }

InitGuess ==
    /\ now = StartTime
    /\ tokens = Capacity
    /\ last_token_refill = StartTime
    /\ InitCallers
    /\ pc = [t \in Threads |-> "off"]
    /\ refill_in = NoRefill
    /\ InitSaving
    /\ InitSession
    /\ daily_income = NoIncome
    /\ possible_prices \in PriceLists
    /\ priced = TRUE
    /\ price_guess = NoGuess
    /\ guessed = FALSE

\* One call of calculate_price_guess(possible_prices).
CalculateGuess ==
    /\ ~guessed
    /\ price_guess' = CalculatePriceGuess(possible_prices)
    /\ guessed' = TRUE
    /\ UNCHANGED << daily_income, possible_prices, priced, now, tokens, last_token_refill,
                    callers, refill_in, saving, session >>

NextGuess == CalculateGuess

SpecGuess == InitGuess /\ [][NextGuess]_vars

\* ---- save_snapshots (lines 427-497) and get_existing_snapshots (392-397) ----
batch_size == 50

Ids == 1..NumIds
Names == {"a", "b"}
Dates == 1..NumDates

\* The company documents of the upstream service: each id under each name, a name
\* telling two documents of one id apart.  The four documents have different
\* incomes, with no price, one price, two prices and three prices that divide them.
DailyIncome(i, n) ==
    IF n = "a" THEN (IF i % 2 = 1 THEN 1680 ELSE 0)
               ELSE (IF i % 2 = 1 THEN 135 ELSE 2520)

Documents == { [ID |-> i, name |-> n, daily_income |-> DailyIncome(i, n)] :
                 i \in Ids, n \in Names }

\* lines 356-374: the record fetch_company_individual builds from a document.
CompanyRecord(company_data) ==
    LET income == [given |-> TRUE, value |-> company_data.daily_income]
        prices == CalculatePossiblePrices(income)
    IN  [company_id |-> company_data.ID,
         name |-> company_data.name,
         daily_income |-> company_data.daily_income,
         possible_prices |-> prices,
         price_guess |-> CalculatePriceGuess(prices)]

\* The records of successful fetches.
Records == { CompanyRecord(company_data) : company_data \in Documents }

\* The `companies` arguments: every list of at most MaxCompanies records.
Inputs == UNION { [1..n -> Records] : n \in 0..MaxCompanies }

\* snapshot_date.isoformat(): the text YYYY-MM-DD, kept as its three fields; the
\* dates are the first days of one month.
Isoformat(d) == << 2024, 1, d >>

\* Mutant: the row copies the list and leaves the guess out.
RowWithoutGuess(d, c) ==
    [snapshot_date |-> Isoformat(d), company_id |-> c.company_id, name |-> c.name,
     possible_prices |-> c.possible_prices, price_guess |-> NoGuess]

\* lines 456-457, 467-482: the row built from a record; the guess is computed anew
\* from the record's list.
Row(d, c) ==
    [snapshot_date |-> Isoformat(d), company_id |-> c.company_id, name |-> c.name,
     possible_prices |-> c.possible_prices,
     price_guess |-> CalculatePriceGuess(c.possible_prices)]

\* Mutant: a later record of an id replaces the earlier one.
RECURSIVE DedupeKeepLast(_, _, _, _)
DedupeKeepLast(cs, i, seen_ids, acc) ==
    IF i > Len(cs) THEN acc
    ELSE LET cid == cs[i].company_id
             others == SelectSeq(acc, LAMBDA c : c.company_id # cid)
         IN  DedupeKeepLast(cs, i + 1, seen_ids \cup {cid}, Append(others, cs[i]))

\* Mutant: every record is kept.
RECURSIVE DedupeNothing(_, _, _, _)
DedupeNothing(cs, i, seen_ids, acc) ==
    IF i > Len(cs) THEN acc
    ELSE DedupeNothing(cs, i + 1, seen_ids, Append(acc, cs[i]))

\* lines 435-441: the loop over companies from position i on, with seen_ids and
\* unique_companies (acc) as they stand.
RECURSIVE Dedupe(_, _, _, _)
Dedupe(cs, i, seen_ids, acc) ==
    IF i > Len(cs) THEN acc
    ELSE LET cid == cs[i].company_id
         IN  IF cid \notin seen_ids
               THEN Dedupe(cs, i + 1, seen_ids \cup {cid}, Append(acc, cs[i]))
               ELSE Dedupe(cs, i + 1, seen_ids, acc)

\* Mutant: the ids already stored are not looked at.
ToSaveAll(unique, ids, d) ==
    [k \in 1..Len(unique) |-> Row(d, unique[k])]

\* lines 452-482: the rows of the records whose id is not in `existing`.
ToSave(unique, ids, d) ==
    LET kept == SelectSeq(unique, LAMBDA c : c.company_id \notin ids)
    IN  [k \in 1..Len(kept) |-> Row(d, kept[k])]

\* The store, an external service: the rows of a date, the call
\* get_snapshot_by_date, delete().eq("snapshot_date", ...), insert(batch).
RowsOf(tb, iso) == { r \in BagToSet(tb) : r.snapshot_date = iso }

\* The rows of a date, each as often as it is stored.
DateRows(tb, iso) == [r \in RowsOf(tb, iso) |-> tb[r]]

\* line 395: the ids of the rows the query returned.
ExistingIds(tb, d) == { r.company_id : r \in RowsOf(tb, Isoformat(d)) }

\* Mutant: the delete matches no row.
DeleteNothing(tb, iso) == tb

\* line 445: delete every row of the date.
DeleteDate(tb, iso) ==
    LET rest == { r \in BagToSet(tb) : r.snapshot_date # iso }
    IN  [r \in rest |-> tb[r]]

\* line 491: insert the rows of a batch.
InsertRows(tb, batch) ==
    LET rows == { batch[k] : k \in DOMAIN batch }
    IN  tb (+) [r \in rows |-> Cardinality({ k \in DOMAIN batch : batch[k] = r })]

\* The state of the rate limiter and the fetchers, which saving leaves alone.
fetching == << now, tokens, last_token_refill, callers, refill_in, pricing, session >>

\* What a call of save_snapshots keeps from its start to its return.
called == << companies, snapshot_date, override, unique_companies, saves, again,
            rows_before >>

\* lines 452-485: build to_save from `existing`; with nothing to save, return
\* (0, len(existing), None).
Plan(ids) ==
    /\ existing' = ids
    /\ batch_start' = 0
    /\ LET rows == ToSave(unique_companies, ids, snapshot_date)
       IN  /\ to_save' = rows
           /\ IF rows = << >>
                THEN /\ saved' = [saved_count |-> 0, skipped_count |-> Cardinality(ids),
                                  error |-> "None"]
                     /\ save_pc' = "done"
                ELSE /\ save_pc' = "insert"
                     /\ UNCHANGED saved

\* The call, and lines 435-443: the input is deduplicated, then the flag is tested.
CallSave(cs, d, ov) ==
    /\ save_pc \in {"idle", "done"}
    /\ saves < MaxSaves
    /\ saves' = saves + 1
    /\ companies' = cs
    /\ snapshot_date' = d
    /\ override' = ov
    /\ unique_companies' = Dedupe(cs, 1, {}, << >>)
    /\ save_pc' = IF ov THEN "clear" ELSE "query"
    /\ existing' = {}
    /\ to_save' = << >>
    /\ batch_start' = 0
    /\ inserted' = 0
    /\ saved' = NoSaved
    /\ again' = /\ save_pc = "done"
                /\ saved.error = "None"
                /\ cs = companies
                /\ d = snapshot_date
    /\ query_failed' = FALSE
    /\ rows_before' = DateRows(table, Isoformat(d))
    /\ UNCHANGED << table, fetching >>

\* lines 444-446: the rows of the date are deleted, existing = set().
ClearDate ==
    /\ save_pc = "clear"
    /\ table' = DeleteDate(table, Isoformat(snapshot_date))
    /\ Plan({})
    /\ UNCHANGED << called, inserted, query_failed, fetching >>

\* lines 447-448: the delete raised.
ClearFails ==
    /\ save_pc = "clear"
    /\ saved' = [saved_count |-> 0, skipped_count |-> 0,
                 error |-> "Error clearing existing snapshots"]
    /\ save_pc' = "done"
    /\ UNCHANGED << table, called, existing, to_save, batch_start, inserted,
                    query_failed, fetching >>

\* line 450, lines 394-395: the query answered.
QueryExisting ==
    /\ save_pc = "query"
    /\ Plan(ExistingIds(table, snapshot_date))
    /\ UNCHANGED << table, called, inserted, query_failed, fetching >>

\* Mutant: the exception of the query leaves get_existing_snapshots and is reported
\* like a failed insert.
QueryFailsAloud ==
    /\ save_pc = "query"
    /\ query_failed' = TRUE
    /\ saved' = [saved_count |-> 0, skipped_count |-> 0, error |-> "Save error"]
    /\ save_pc' = "done"
    /\ UNCHANGED << table, called, existing, to_save, batch_start, inserted, fetching >>

\* lines 396-397: the query raised, get_existing_snapshots returns set().
QueryFails ==
    /\ save_pc = "query"
    /\ query_failed' = TRUE
    /\ Plan({})
    /\ UNCHANGED << table, called, inserted, fetching >>

\* lines 488-492: one batch is inserted; after the last one the call returns
\* (len(to_save), len(existing), None).
InsertBatch ==
    /\ save_pc = "insert"
    /\ LET upto == Min(batch_start + batch_size, Len(to_save))
           batch == SubSeq(to_save, batch_start + 1, upto)
       IN  /\ table' = InsertRows(table, batch)
           /\ inserted' = inserted + Len(batch)
           /\ batch_start' = batch_start + batch_size
           /\ IF batch_start + batch_size >= Len(to_save)
                THEN /\ saved' = [saved_count |-> Len(to_save),
                                  skipped_count |-> Cardinality(existing),
                                  error |-> "None"]
                     /\ save_pc' = "done"
                ELSE UNCHANGED << saved, save_pc >>
    /\ UNCHANGED << called, existing, to_save, query_failed, fetching >>

\* lines 493-497: an insert raised; the batch is not in the table.
InsertFails(duplicate) ==
    /\ save_pc = "insert"
    /\ saved' = [saved_count |-> 0, skipped_count |-> 0,
                 error |-> IF duplicate THEN "Duplicate key error" ELSE "Save error"]
    /\ save_pc' = "done"
    /\ UNCHANGED << table, called, existing, to_save, batch_start, inserted,
                    query_failed, fetching >>

InitSave == InitShared /\ pc = [t \in Threads |-> "off"]

\* A store whose operations succeed.
NextSaveOk ==
    \/ \E cs \in Inputs, d \in Dates, ov \in BOOLEAN : CallSave(cs, d, ov)
    \/ ClearDate
    \/ QueryExisting
    \/ InsertBatch

\* An input of more rows than one insert batch holds: batch_size + 1 companies.
LongInput ==
    [k \in 1..(batch_size + 1) |->
        CompanyRecord([ID |-> k, name |-> "a", daily_income |-> DailyIncome(k, "a")])]

\* The arguments of the calls to a store that may fail: the lists shorter than
\* MaxCompanies, and the long one.
FailInputs == { cs \in Inputs : Len(cs) < MaxCompanies } \cup {LongInput}

\* A store whose operations may fail.
NextSave ==
    \/ \E cs \in FailInputs, d \in Dates, ov \in BOOLEAN : CallSave(cs, d, ov)
    \/ ClearDate
    \/ QueryExisting
    \/ InsertBatch
    \/ ClearFails
    \/ QueryFails
    \/ \E duplicate \in BOOLEAN : InsertFails(duplicate)

SpecSaveOk == InitSave /\ [][NextSaveOk]_vars

SpecSave == InitSave /\ [][NextSave]_vars

\* ---- the fetch loop of the page (lines 1246-1304) ----
\* line 573: the ids of the bulk result, each once.
COMPANY_IDS == [k \in 1..NumIds |-> k]

\* What fetch_company_individual returns to the loop: a record with "OK", or no
\* record with "Company not found" or with another message.
FetchResults == {"OK", "Company not found", "failed"}

\* line 1262
Target == Min(to_fetch_target, Len(COMPANY_IDS))

\* The limiter, the store and the price functions, which the loop leaves alone here.
offstage == << now, tokens, last_token_refill, callers, refill_in, saving, pricing >>

\* lines 1246-1251, 1259-1266: the FETCH button, the rerun, the start of the loop.
ClickFetch(to_fetch) ==
    /\ ~fetch_triggered
    /\ clicks < MaxClicks
    /\ Len(COMPANY_IDS) > 0
    /\ clicks' = clicks + 1
    /\ to_fetch_target' = to_fetch
    /\ fetch_triggered' = TRUE
    /\ loop_i' = 0
    /\ existing_ids' = { companies_data[k] : k \in DOMAIN companies_data }
    /\ UNCHANGED << companies_data, deleted_ids, fetched, offstage >>

\* lines 1268-1294: one turn of the loop, the fetch answering `message`.
FetchOne(message) ==
    /\ fetch_triggered
    /\ loop_i < Target
    /\ loop_i' = loop_i + 1
    /\ LET cid == COMPANY_IDS[loop_i + 1]
       IN  IF cid \in existing_ids
             THEN UNCHANGED << existing_ids, companies_data, deleted_ids, fetched >>
             ELSE /\ fetched' = [fetched EXCEPT ![cid] = fetched[cid] + 1]
                  /\ IF message = "OK"
                       THEN /\ companies_data' = Append(companies_data, cid)
                            /\ existing_ids' = existing_ids \cup {cid}
                            /\ UNCHANGED deleted_ids
                       ELSE /\ deleted_ids' = IF message = "Company not found"
                                                 THEN Append(deleted_ids, cid)
                                                 ELSE deleted_ids
                            /\ UNCHANGED << existing_ids, companies_data >>
    /\ UNCHANGED << fetch_triggered, to_fetch_target, clicks, offstage >>

\* lines 1296-1304: the loop is over.
EndFetch ==
    /\ fetch_triggered
    /\ loop_i >= Target
    /\ fetch_triggered' = FALSE
    /\ UNCHANGED << to_fetch_target, loop_i, existing_ids, companies_data, deleted_ids,
                    fetched, clicks, offstage >>

InitLoop == InitShared /\ pc = [t \in Threads |-> "off"]

NextLoop ==
    \/ \E to_fetch \in 1..Len(COMPANY_IDS) : ClickFetch(to_fetch)
    \/ \E message \in FetchResults : FetchOne(message)
    \/ EndFetch

SpecLoop == InitLoop /\ [][NextLoop]_vars

\* ======================= claims =======================

Granted(t) == pc[t] = "done" /\ ret[t].ok
DeniedCall(t) == pc[t] = "done" /\ ~ret[t].ok

\* C1: after MAX_CONSECUTIVE_ERRORS failed fetches in a row (transient errors or
\* 429s, no other outcome between them), the next wait_for_rate_limit call is denied
\* for cooldown: it never passes the cooldown test (while a cooldown started by those
\* failures would still run).
C1_CooldownAfterFailures ==
    \A t \in Threads :
        (streak >= MAX_CONSECUTIVE_ERRORS /\ now < StartTime + COOLDOWN_SECONDS)
            => pc[t] \notin {"refill", "sleep", "request"}

\* C2: in sequential use the cooldown denial is returned exactly when the clock read
\* by the call is before the deadline; the denial carries the remaining seconds; and
\* from the call to the denial nothing sleeps and the limiter state stays as it was.
C2_CooldownDenial ==
    [][\A t \in Threads :
          /\ (pc[t] = "wait" /\ pc'[t] # "wait")
                => ((pc'[t] = "cooling") <=> (now < api_disabled_until))
          /\ (pc[t] = "cooling" /\ pc'[t] # "cooling")
                => /\ pc'[t] = "done"
                   /\ ret'[t] = [ok |-> FALSE, msg |-> "API disabled",
                                 remaining |-> api_disabled_until - now]
                   /\ ~slept'[t]
          /\ (ret'[t].msg = "API disabled" /\ ret[t].msg # "API disabled")
                => pc[t] = "cooling"
          /\ (pc[t] \in {"wait", "cooling"})
                => UNCHANGED << tokens, last_token_refill, last_call_time,
                                api_disabled_until, consecutive_errors >>
      ]_vars

\* C2 witness: a call was denied for cooldown with a full second or more remaining,
\* while the bucket held at least one token.
C2_Witness ==
    \E t \in Threads :
        /\ DeniedCall(t)
        /\ ret[t].msg = "API disabled"
        /\ ret[t].remaining > 0
        /\ tokens >= OneToken

C4_TokensInRange == tokens >= 0 /\ tokens <= Capacity

\* C4 witness: the last token of the bucket was granted.
C4_Witness == tokens = 0 /\ \E t \in Threads : pc[t] = "request"

\* C5 as stated: a denial, for cooldown or for an empty bucket, leaves tokens as
\* it was before the call.
C5_DenialKeepsTokens ==
    [][\A t \in Threads :
          (pc[t] \in {"wait", "cooling", "refill"} /\ pc'[t] \in {"cooling", "done"})
              => tokens' = tokens
      ]_vars

\* C5 amended: a denial consumes no token.  On the cooldown path tokens is unchanged;
\* on the empty-bucket path tokens is the refilled value, which is at least the
\* value before the call, below one token, and larger than the value before when
\* time has passed since the last refill.
C5_DenialConsumesNoToken ==
    [][\A t \in Threads :
          /\ (pc[t] \in {"wait", "cooling"} /\ pc'[t] \in {"cooling", "done"})
                => tokens' = tokens
          /\ (pc[t] = "refill" /\ pc'[t] = "done")
                => /\ tokens' >= tokens
                   /\ tokens' < OneToken
                   /\ tokens' = tokens + Max(0, now - last_token_refill)
      ]_vars

\* C5 witness: a call was denied for an empty bucket that holds half a token,
\* which only a refill leaves behind.
C5_Witness ==
    \E t \in Threads :
        /\ DeniedCall(t)
        /\ ret[t].msg = "No tokens available"
        /\ tokens = 1

\* C6: a fetch that returns "OK" leaves the consecutive error count at 0, and a
\* fetch with any other outcome leaves it no lower than it was when the fetch began.
C6_OnlySuccessResets ==
    \A t \in Threads :
        Granted(t) =>
            IF result[t].msg = "OK"
              THEN consecutive_errors = 0
              ELSE consecutive_errors >= before[t].errors

\* C7: a fetch answered 429 raises the consecutive error count by one, and starts a
\* cooldown only if the count has then reached MAX_CONSECUTIVE_ERRORS.
C7_CooldownOnlyAtLimit ==
    \A t \in Threads :
        (Granted(t) /\ resp[t] = "http_429") =>
            /\ consecutive_errors = before[t].errors + 1
            /\ IF consecutive_errors >= MAX_CONSECUTIVE_ERRORS
                 THEN api_disabled_until > before[t].disabled
                 ELSE api_disabled_until = before[t].disabled

\* C8: a granted fetch that ends in a network failure, a parse failure, a status
\* other than 200 and 429 or an error payload with a code other than 6 raises the
\* consecutive error count by exactly one and returns no record.
C8_FailureCountsOnce ==
    \A t \in Threads :
        (Granted(t) /\ resp[t] \in {"network_error", "parse_error", "http_error",
                                    "api_error"})
            => /\ consecutive_errors = before[t].errors + 1
               /\ ~result[t].record
               /\ result[t].msg \notin {"OK", "none"}

\* C9: an individual fetch answered with error code 6 leaves the consecutive error
\* count and the cooldown deadline as they were and returns "Company not found"
\* with no record.
C9_NotFoundIsNeutral ==
    \A t \in Threads :
        (Granted(t) /\ op[t] = "individual" /\ resp[t] = "api_error_6")
            => /\ consecutive_errors = before[t].errors
               /\ api_disabled_until = before[t].disabled
               /\ result[t] = [record |-> FALSE, msg |-> "Company not found"]

\* C9 witness: a "Company not found" answer arrived after earlier failures, whose
\* count it left standing.
C9_Witness ==
    \E t \in Threads :
        /\ Granted(t)
        /\ op[t] = "individual"
        /\ resp[t] = "api_error_6"
        /\ consecutive_errors >= 2

\* C10: an individual fetch calls wait_for_rate_limit once and issues at most one
\* HTTP request: none when the permit is denied, in which case it returns the
\* denial message and leaves the error count and the deadline untouched, and
\* exactly one when the permit is granted.
C10_OneWaitOneRequest ==
    \A t \in Threads :
        /\ waits[t] <= 1
        /\ reqs[t] <= 1
        /\ (pc[t] = "done" /\ op[t] = "individual") =>
              /\ waits[t] = 1
              /\ IF ret[t].ok
                   THEN reqs[t] = 1
                   ELSE /\ reqs[t] = 0
                        /\ result[t] = [record |-> FALSE, msg |-> ret[t].msg]
                        /\ consecutive_errors = before[t].errors
                        /\ api_disabled_until = before[t].disabled

\* C10 witness: both cases have happened: failed fetches that each made their one
\* request, then a fetch that was denied and made none.
C10_Witness ==
    \E t \in Threads :
        /\ DeniedCall(t)
        /\ op[t] = "individual"
        /\ reqs[t] = 0
        /\ consecutive_errors >= MAX_CONSECUTIVE_ERRORS

\* C11: with concurrent callers no HTTP request is issued at a time when the clock
\* is before the cooldown deadline, in any interleaving.
C11_NoRequestInCooldown ==
    [][\A t \in Threads :
          (pc[t] = "request" /\ pc'[t] = "handle") => ~(now < api_disabled_until)
      ]_vars

\* C12: with concurrent fetches every failure outcome raises the consecutive error
\* count by exactly one, as accesses serialized under the rate lock would: the
\* store of each `+= 1` leaves the count one above its value just before the store,
\* so that k failures raise it by k.
C12_NoLostUpdate ==
    [][\A t \in Threads :
          (pc[t] = "store" /\ pc'[t] # "store")
              => consecutive_errors' = consecutive_errors + 1
      ]_vars

\* C13: for every level of the bucket in [0, capacity] and every elapsed time
\* >= 0, a call of _refill_tokens leaves tokens at the smaller of the capacity and
\* the level before plus elapsed * refill rate, never below the level before; with
\* no time elapsed it changes neither tokens nor the refill stamp.
C13_RefillFormula ==
    refill_in.called =>
        LET elapsed == refill_in.at - refill_in.stamp
            sum == refill_in.tokens + elapsed
        IN  elapsed >= 0 =>
              /\ tokens = (IF sum > Capacity THEN Capacity ELSE sum)
              /\ tokens >= refill_in.tokens
              /\ (elapsed = 0 =>
                    tokens = refill_in.tokens /\ last_token_refill = refill_in.stamp)
              /\ (elapsed > 0 => last_token_refill = refill_in.at)

\* C13 witness: a refill of a bucket that was not full reached the capacity with
\* elapsed time to spare.
C13_Witness ==
    /\ refill_in.called
    /\ refill_in.tokens < Capacity
    /\ refill_in.tokens + (refill_in.at - refill_in.stamp) > Capacity
    /\ tokens = Capacity

\* C14: when no cooldown is active and tokens after the refill is below one token,
\* wait_for_rate_limit returns a denial whose reason is not the reason of the
\* cooldown denial, and only then; it does so without sleeping and without changing
\* last_call_time, the error count or the cooldown deadline.
C14_ExhaustedDenial ==
    [][\A t \in Threads :
          /\ (pc[t] = "refill" /\ pc'[t] # "refill")
                => /\ (tokens' < OneToken) <=> (pc'[t] = "done")
                   /\ (pc'[t] = "done")
                         => /\ ~ret'[t].ok
                            /\ ret'[t].msg = "No tokens available"
                            /\ ret'[t].msg # "API disabled"
                            /\ ~slept'[t]
                            /\ sleepleft'[t] = 0
                            /\ now' = now
          /\ (ret'[t].msg = "No tokens available" /\ ret[t].msg # "No tokens available")
                => pc[t] = "refill" /\ ~(now < api_disabled_until)
          /\ (pc[t] \in {"wait", "refill"} /\ pc'[t] \in {"refill", "done"})
                => UNCHANGED << last_call_time, consecutive_errors, api_disabled_until >>
      ]_vars

\* C14 witness: a call was denied for an empty bucket, with no cooldown running,
\* after earlier calls were granted; it did not sleep.
C14_Witness ==
    \E t \in Threads :
        /\ DeniedCall(t)
        /\ ret[t].msg = "No tokens available"
        /\ tokens = 0
        /\ ~(now < api_disabled_until)
        /\ last_call_time > 0
        /\ ~slept[t]

\* C15: fetch_company_individual never raises: whatever the limiter and the
\* upstream service do, no exception leaves the fetch, every answer is handled by
\* some branch, and the fetch returns a tuple whose record is there only when its
\* message is "OK".
C15_FetchNeverRaises ==
    \A t \in Threads :
        /\ pc[t] # "raised"
        /\ (pc[t] = "handle")
              => \/ CountsError(op[t], resp[t])
                 \/ ReturnsPlain(op[t], resp[t])
                 \/ ResetsErrors(op[t], resp[t])
                 \/ (op[t] = "bulk" /\ resp[t] = "http_429")
        /\ (pc[t] = "done" /\ op[t] = "individual")
              => /\ result[t].msg # "none"
                 /\ (result[t].record => result[t].msg = "OK")

\* C15 witness: an exception raised by the parsing of a 200 answer, after the error
\* count was reset, was caught and returned as an error with no record.
C15_Witness ==
    \E t \in Threads :
        /\ Granted(t)
        /\ op[t] = "individual"
        /\ resp[t] = "bad_fields"
        /\ result[t] = [record |-> FALSE, msg |-> "Error"]

\* What is stored for a date: the ids of its rows.
StoredIds(d) ==
    { r.company_id : r \in { q \in DOMAIN table : q.snapshot_date = Isoformat(d) } }

\* The positions of the input that survive: the first of their id, the id not stored.
Survivors(cs, stored) ==
    { i \in DOMAIN cs :
        /\ \A j \in 1..(i - 1) : cs[j].company_id # cs[i].company_id
        /\ cs[i].company_id \notin stored }

\* rows holds the records at the surviving positions, in the order of the input.
IsPlanOf(rows, cs, stored, d) ==
    LET keep == Survivors(cs, stored)
        nth(k) == CHOOSE i \in keep : Cardinality({ j \in keep : j <= i }) = k
    IN  /\ Len(rows) = Cardinality(keep)
        /\ \A k \in 1..Len(rows) :
              /\ rows[k].company_id = cs[nth(k)].company_id
              /\ rows[k].name = cs[nth(k)].name
              /\ rows[k].snapshot_date = Isoformat(d)

\* The call has planned and not inserted yet: the table is as the query found it.
Planned ==
    \/ save_pc = "insert" /\ batch_start = 0
    \/ save_pc = "done" /\ saved.error = "None" /\ inserted = 0

C17_OneRowPerDateAndId ==
    \A r, q \in DOMAIN table :
        /\ table[r] = 1
        /\ (r.snapshot_date = q.snapshot_date /\ r.company_id = q.company_id) => r = q

\* C17 witness: the last of the calls, made with override on and an input that names
\* an id twice, has replaced rows of a date while another date keeps its own.
C17_Witness ==
    /\ saves = MaxSaves
    /\ save_pc = "done"
    /\ override
    /\ again
    /\ Len(companies) > Len(unique_companies)
    /\ inserted > 0
    /\ \A d \in Dates : StoredIds(d) # {}

\* C18: with override off and store operations succeeding, a call that repeats the
\* records and the date of the call before it plans no row, inserts no row and
\* returns (0, number of ids stored for the date, no error).
C18_SecondSaveIsEmpty ==
    (again /\ ~override /\ save_pc \notin {"query"})
        => /\ to_save = << >>
           /\ inserted = 0
           /\ save_pc = "done"
           /\ saved = [saved_count |-> 0,
                       skipped_count |-> Cardinality(StoredIds(snapshot_date)),
                       error |-> "None"]

\* C18 witness: the repeated call came back empty-handed although its input has
\* records, all of which the call before had stored.
C18_Witness ==
    /\ again
    /\ ~override
    /\ save_pc = "done"
    /\ Len(unique_companies) = NumIds
    /\ saved.skipped_count = NumIds
    /\ saved.saved_count = 0

\* C19: with override on, the rows save_snapshots inserts are those it would
\* insert with override off and nothing stored for the date, whatever is stored:
\* the rows of the date are all deleted before the insert, and after it the rows of
\* the date are the deduplicated input and nothing else.
C19_OverrideReplacesDate ==
    override =>
        /\ (save_pc = "insert")
              => /\ StoredIds(snapshot_date) = {}
                 /\ IsPlanOf(to_save, companies, {}, snapshot_date)
        /\ (save_pc = "done" /\ saved.error = "None")
              => /\ IsPlanOf(to_save, companies, {}, snapshot_date)
                 /\ inserted = Len(to_save)
                 /\ saved.saved_count = Len(to_save)
                 /\ { r \in DOMAIN table : r.snapshot_date = Isoformat(snapshot_date) }
                        = { to_save[k] : k \in DOMAIN to_save }

\* C19 witness: an override call that repeats the records of the call before, so
\* that all its ids were stored for the date, has deleted them and is about to
\* insert them again.
C19_Witness ==
    /\ override
    /\ again
    /\ save_pc = "insert"
    /\ Len(to_save) = NumIds
    /\ Len(companies) > Len(to_save)

\* C20: for every integer daily_income, calculate_possible_prices returns, in
\* ascending order and without repetition, exactly the integers p from 135 to 199
\* that divide daily_income, and the empty list when daily_income is missing, zero
\* or negative.
C20_PossiblePrices ==
    priced =>
        /\ \A k \in 1..(Len(possible_prices) - 1) : possible_prices[k] < possible_prices[k + 1]
        /\ { possible_prices[k] : k \in DOMAIN possible_prices }
              = { p \in 135..199 :
                    /\ daily_income.given
                    /\ daily_income.value > 0
                    /\ \E q \in 1..(daily_income.value \div 135) :
                          p * q = daily_income.value }
        /\ (~daily_income.given \/ daily_income.value <= 0) => possible_prices = << >>

\* C20 witness: an income with three prices, 140, 168 and 180.
C20_Witness ==
    /\ priced
    /\ daily_income.value = 2520
    /\ possible_prices = << 140, 168, 180 >>

\* C21: calculate_price_guess returns None for the empty list; for any other list
\* it returns the element that has as many elements before it as half the length,
\* rounded down (the upper of the two middle elements when the length is even),
\* and so never a value that is not in the list.
C21_PriceGuess ==
    guessed =>
        IF Len(possible_prices) = 0
          THEN ~price_guess.given
          ELSE /\ price_guess.given
               /\ \E k \in 1..Len(possible_prices) :
                      /\ 2 * (k - 1) <= Len(possible_prices)
                      /\ Len(possible_prices) < 2 * k
                      /\ price_guess.value = possible_prices[k]
               /\ \E k \in 1..Len(possible_prices) : price_guess.value = possible_prices[k]

\* A list of four prices, the two middle ones different: the guess is the third.
C21_Witness ==
    /\ guessed
    /\ Len(possible_prices) = 4
    /\ possible_prices[2] # possible_prices[3]
    /\ price_guess = [given |-> TRUE, value |-> possible_prices[3]]

\* The guess g is the one that belongs to the list ps: none for the empty list,
\* else the element with half the length, rounded down, before it.
GuessBelongs(ps, g) ==
    /\ g.given <=> Len(ps) > 0
    /\ g.given => \E k \in 1..Len(ps) : /\ 2 * (k - 1) <= Len(ps)
                                        /\ Len(ps) < 2 * k
                                        /\ g.value = ps[k]

\* C22: in every record of a successful fetch and in every snapshot row that
\* save_snapshots builds or has inserted, price_guess is the guess of the
\* possible_prices next to it, and it is None exactly when that list is empty.
C22_GuessOfPrices ==
    /\ \A k \in DOMAIN companies :
           GuessBelongs(companies[k].possible_prices, companies[k].price_guess)
    /\ \A k \in DOMAIN to_save :
           GuessBelongs(to_save[k].possible_prices, to_save[k].price_guess)
    /\ \A r \in BagToSet(table) : GuessBelongs(r.possible_prices, r.price_guess)

\* A call has inserted a row with two prices, whose guess is the second, and a row
\* without prices.
C22_Witness ==
    /\ save_pc = "done"
    /\ inserted = Len(to_save)
    /\ \E k \in DOMAIN to_save : /\ Len(to_save[k].possible_prices) = 2
                                  /\ to_save[k].price_guess.given
                                  /\ to_save[k].price_guess.value = to_save[k].possible_prices[2]
                                  /\ to_save[k] \in BagToSet(table)
    /\ \E k \in DOMAIN to_save : /\ to_save[k].possible_prices = << >>
                                  /\ ~to_save[k].price_guess.given

Deleted(c) == \E k \in DOMAIN deleted_ids : deleted_ids[k] = c

\* C23: an id that the fetch loop has recorded in deleted_ids (its fetch returned
\* "Company not found") is not fetched again in the session.
C23_DeletedNeverFetchedAgain ==
    [][\A c \in DOMAIN fetched : Deleted(c) => fetched'[c] = fetched[c]]_vars

\* C24: when save_snapshots has returned, saved_count is the number of rows the
\* call inserted into the store.
C24_SavedCountIsInserted ==
    (save_pc = "done" /\ saves > 0) => saved.saved_count = inserted

\* C25: with a clock that never runs backwards, the bucket never holds less than
\* three tokens, whatever the callers do and however they interleave, and no call
\* of wait_for_rate_limit is denied for want of a token.
C25_AtLeastThreeTokens ==
    /\ tokens >= 3 * OneToken
    /\ \A t \in Threads : ret[t].msg # "No tokens available"

\* The bucket is down to three tokens: a caller was granted a call after the pacing
\* sleep while the other caller waits for the lock.
C25_Witness ==
    /\ tokens = 3 * OneToken
    /\ \E t \in Threads, u \in Threads :
          /\ t # u
          /\ pc[t] = "request"
          /\ slept[t]
          /\ ret[t].ok
          /\ pc[u] = "wait"

\* C26: the count outlives the cooldown.  Nothing but the handling of an answer
\* changes the consecutive error count, so the passing of time and the expiry of a
\* cooldown leave it; an individual fetch that begins with the count at the
\* threshold and is answered 429 starts a new cooldown at once; and the count stays
\* at the threshold until a fetch succeeds: it falls below it only in a step in
\* which a fetch returns a record.
C26_CountOutlivesCooldown ==
    /\ [](\A t \in Threads :
            (/\ Granted(t)
             /\ op[t] = "individual"
             /\ resp[t] = "http_429"
             /\ before[t].errors >= MAX_CONSECUTIVE_ERRORS)
                => /\ result[t].msg = "Rate limit exceeded. API disabled"
                   /\ api_disabled_until > before[t].disabled
                   /\ api_disabled_until > now)
    /\ [][ /\ (consecutive_errors' # consecutive_errors)
                 => \E t \in Threads : reqs[t] > 0 /\ ret[t].ok
           /\ (/\ consecutive_errors >= MAX_CONSECUTIVE_ERRORS
               /\ consecutive_errors' < MAX_CONSECUTIVE_ERRORS)
                 => \E u \in Threads : result'[u].record ]_vars

\* C27: in sequential use a cooldown runs out.  The deadline is only ever set to
\* COOLDOWN_SECONDS after the clock, and only when no cooldown is running; while a
\* cooldown runs, the consecutive error count is changed by no operation but the
\* fetch that started the cooldown; and a call of wait_for_rate_limit is denied for
\* cooldown only when the clock it reads is before the deadline.
C27_CooldownRunsOut ==
    [][ /\ (api_disabled_until' # api_disabled_until)
            => /\ now >= api_disabled_until
               /\ api_disabled_until' = now + COOLDOWN_SECONDS
        /\ (now < api_disabled_until /\ consecutive_errors' # consecutive_errors)
            => \E t \in Threads : ret[t].ok /\ before[t].disabled # api_disabled_until
        /\ \A t \in Threads :
              (pc[t] = "wait" /\ pc'[t] = "cooling") => now < api_disabled_until ]_vars

\* A cooldown started at the threshold has run out, and a call made at its deadline
\* or later has passed the cooldown test.
C27_Witness ==
    /\ api_disabled_until > 0
    /\ now >= api_disabled_until
    /\ consecutive_errors >= MAX_CONSECUTIVE_ERRORS
    /\ \E t \in Threads : pc[t] = "refill"

InputIds == { companies[k].company_id : k \in DOMAIN companies }

\* C28: when the query for the stored ids has failed, the call (override off) goes
\* on with an empty `existing`: its rows to insert are one for every id of the
\* input, stored or not; and what it returns does not tell of the failure: the
\* skipped count is 0 and the error is None or that of a failed insert, and None
\* comes with one saved row for every id of the input.
C28_FailedQueryIsSilent ==
    (query_failed /\ save_pc \in {"insert", "done"}) =>
        /\ ~override
        /\ existing = {}
        /\ { to_save[k].company_id : k \in DOMAIN to_save } = InputIds
        /\ Len(to_save) = Cardinality(InputIds)
        /\ save_pc = "done" =>
              /\ saved.skipped_count = 0
              /\ saved.error \in {"None", "Duplicate key error", "Save error"}
              /\ saved.error = "None" => saved.saved_count = Cardinality(InputIds)

\* After a failed query the call has inserted a row of an id that was stored for the
\* date already, and has returned without an error.
C28_Witness ==
    /\ query_failed
    /\ save_pc = "done"
    /\ saved.error = "None"
    /\ \E k \in DOMAIN to_save :
          \E r \in BagToSet(table) :
              /\ r.snapshot_date = to_save[k].snapshot_date
              /\ r.company_id = to_save[k].company_id
              /\ (r # to_save[k] \/ table[r] > 1)

\* C29: when a call with the override flag set has returned an error message, the
\* store holds for the call's date the rows it held when the call began.
C29_OverrideAllOrNothing ==
    (override /\ save_pc = "done" /\ saved.error \notin {"None", "unset"})
        => DateRows(table, Isoformat(snapshot_date)) = rows_before

\* C30: in chat.py the cooldown deadline and the consecutive error count stay as
\* the module sets them, and no call of wait_for_rate_limit returns "API cooling
\* down".
C30_ChatNeverCoolsDown ==
    /\ api_disabled_until = 0
    /\ consecutive_errors = 0
    /\ \A t \in Threads : ret[t].msg # "API cooling down" /\ result[t].msg # "API cooling down"

\* After MAX_CONSECUTIVE_ERRORS fetches in a row that were answered 429 or failed
\* otherwise, the next call of wait_for_rate_limit is granted.
C30_Witness ==
    /\ streak >= MAX_CONSECUTIVE_ERRORS
    /\ \E t \in Threads : pc[t] = "request" /\ ret[t].ok
====
